---------------------------- MODULE Spec2Model ----------------------------
(***************************************************************************)
(* Model of src/analyze_results.py: analyze_and_visualize_results loads a  *)
(* results archive, aligns the beta series with the theta series, builds a *)
(* six panel figure, saves it, prints the key statistics and saves them.   *)
(*                                                                         *)
(* Real numbers are fixed point integers.  Beta and theta values and the   *)
(* beta errors count units of 10^-5; positions, velocities and distances   *)
(* count units of 10^-3.  A formatted number is the integer count of its   *)
(* last printed decimal (".4f" of 0.30004 is 3000, ".2f" of 1.414 is 141). *)
(***************************************************************************)
EXTENDS Integers, Sequences, FiniteSets, TLC

\* ------------------------------------------------------------------ bounds
\* longest theta series of an input archive; beta series reach MaxLen + 1
MaxLen == 2
\* most rows of an input trajectory
MaxRows == 2

\* ------------------------------------------------------------ input values
Keys == <<"ego", "human", "beta", "theta", "t_beta", "t_theta", "PassInter", "Collision">>

KeySet == {Keys[i] : i \in 1..Len(Keys)}

\* 0.5 and 0.30004
BetaVals == {5 * 10^4, 30004}

\* 0.9 and 0.12345
ThetaVals == {9 * 10^4, 12345}

\* 0.5 and 0.4
TrueBetaVals == {5 * 10^4, 4 * 10^4}

TrueThetaVals == {"a", "d", "attentive"}

\* rows [x, y, heading, velocity]: at the origin with 10 m/s, and at
\* (3, 4.005) with heading 1 and 10.126 m/s
Row0 == <<0, 0, 0, 10^4>>

Row1 == <<3000, 4005, 1000, 10126>>

\* a row of an array with only three columns
ShortRow == <<0, 0, 0>>

SeqsUpTo(S, n) == UNION {[1..k -> S] : k \in 0..n}

\* the ego vehicle stands at the origin; the human vehicle is there or away
EgoTrajs == SeqsUpTo({Row0}, MaxRows) \cup {<<ShortRow>>}

HumanTrajs == SeqsUpTo({Row0, Row1}, MaxRows) \cup {<<ShortRow>>}

BetaSeries == SeqsUpTo(BetaVals, MaxLen + 1)

\* theta series of every length up to MaxLen that end in either value (the
\* code reads the last value; the earlier ones are only plotted)
ThetaSeries ==
    {<<>>} \cup {[i \in 1..k |-> IF i = k THEN v ELSE 9 * 10^4] :
                    k \in 1..MaxLen, v \in ThetaVals}

\* ------------------------------------------------------ numeric primitives
RECURSIVE SumSeq(_)
SumSeq(s) == IF s = <<>> THEN 0 ELSE s[1] + SumSeq(Tail(s))

RECURSIVE MinSeq(_)
MinSeq(s) == IF Len(s) = 1 THEN s[1]
             ELSE LET m == MinSeq(Tail(s)) IN IF s[1] < m THEN s[1] ELSE m

Abs(x) == IF x < 0 THEN -x ELSE x

\* largest r in lo..hi with r * r <= n
RECURSIVE SqrtSearch(_, _, _)
SqrtSearch(n, lo, hi) ==
    IF lo = hi THEN lo
    ELSE LET mid == (lo + hi + 1) \div 2
         IN IF mid * mid <= n THEN SqrtSearch(n, mid, hi)
                              ELSE SqrtSearch(n, lo, mid - 1)

Sqrt(n) == SqrtSearch(n, 0, 46340)

Mean(s) == SumSeq(s) \div Len(s)

\* numpy std: square root of the mean squared deviation from the mean
Std(s) == LET m == Mean(s)
          IN Sqrt(Mean([i \in 1..Len(s) |-> (s[i] - m) * (s[i] - m)]))

Last(s) == s[Len(s)]

\* the column of a two dimensional array
Column(traj, c) == [i \in 1..Len(traj) |-> traj[i][c]]

Cols(traj) == Len(traj[1])

\* np.arange(n)
Arange(n) == [i \in 1..n |-> i - 1]

\* "{x:.4f}" and "{x:.2f}": drop one decimal of the fixed point value,
\* rounding to nearest with ties to even
RoundLastDigit(x) ==
    LET a == Abs(x)
        d == a \div 10
        r == a % 10
        up == IF r > 5 \/ (r = 5 /\ d % 2 = 1) THEN d + 1 ELSE d
    IN IF x < 0 THEN -up ELSE up

\* velocity in km/h: v * 3.6
Kmh(v) == (v * 36) \div 10

\* --------------------------------------------------------- printed lines
Text(s) == <<"text", s>>

Fixed(label, digits, x, unit) == <<"fixed", label, digits, RoundLastDigit(x), unit>>

Shown(label, v) == <<"value", label, <<v>>>>

Rule == Text("============================================================")

\* ------------------------------------------------------------ the archive
\* the archives that hold every field
FullArchives ==
    {[ego |-> e, human |-> h, beta |-> b, theta |-> t, t_beta |-> tb,
      t_theta |-> tt, PassInter |-> o, Collision |-> ~o] :
        e \in EgoTrajs, h \in HumanTrajs, b \in BetaSeries, t \in ThetaSeries,
        tb \in TrueBetaVals, tt \in TrueThetaVals, o \in BOOLEAN}

\* the archives of one shape of trajectories, from which a field is removed
SampleArchives ==
    {a \in FullArchives : a.ego = <<Row0, Row0>> /\ a.human = <<Row0, Row1>>}

Without(a, k) == [f \in (DOMAIN a) \ {k} |-> a[f]]

PartialArchives == {Without(a, k) : a \in SampleArchives, k \in KeySet}

\* a lookup that falls back to a default instead of raising
KeyLookupLenient(data, key) ==
    IF key \in DOMAIN data THEN [ok |-> TRUE, value |-> <<data[key]>>]
    ELSE [ok |-> TRUE,
          value |-> <<[ego |-> <<Row0>>, human |-> <<Row0>>, beta |-> <<5 * 10^4>>,
                       theta |-> <<9 * 10^4>>, t_beta |-> 5 * 10^4, t_theta |-> "d",
                       PassInter |-> FALSE, Collision |-> FALSE][key]>>]

\* data[key] of the loaded archive: the value, or a missing-key error
KeyLookup(data, key) ==
    IF key \in DOMAIN data THEN [ok |-> TRUE, value |-> <<data[key]>>]
                           ELSE [ok |-> FALSE, value |-> <<>>]

\* the first lookup of lines 24-31 that fails, 0 if none does
FirstKeyError(data) ==
    LET bad == {i \in 1..Len(Keys) : ~KeyLookup(data, Keys[i]).ok}
    IN IF bad = {} THEN 0 ELSE CHOOSE i \in bad : \A j \in bad : i <= j

Field(data, key) == KeyLookup(data, key).value[1]

\* ------------------------------------------------------- the computations
\* a trim of every beta series longer than the theta series
AlignedBetaTrimsLonger(beta, theta) ==
    IF Len(beta) > Len(theta) THEN Tail(beta) ELSE beta

\* a trim of the last element instead of the first
AlignedBetaDropsLast(beta, theta) ==
    IF Len(beta) = Len(theta) + 1 THEN SubSeq(beta, 1, Len(beta) - 1) ELSE beta

\* lines 49-55: the beta series that is plotted and summarised
AlignedBeta(beta, theta) ==
    IF Len(beta) = Len(theta) + 1 THEN Tail(beta) ELSE beta

\* the signed difference, without np.abs
BetaErrorSigned(plot, tb) == [i \in 1..Len(plot) |-> plot[i] - tb]

\* line 108: np.abs(beta_est_plot - true_beta)
BetaError(plot, tb) == [i \in 1..Len(plot) |-> Abs(plot[i] - tb)]

\* lines 118-128: the title word and the label of the theta series
ThetaLabel(tt) == IF tt = "a" THEN "Attentive" ELSE "Distracted"

\* a comparison with the word instead of the letter
ThetaSeriesLabelByWord(tt) ==
    IF tt = "attentive" THEN "P(Attentive)" ELSE "P(Distracted)"

ThetaSeriesLabel(tt) == IF tt = "a" THEN "P(Attentive)" ELSE "P(Distracted)"

\* the shape of a - b for one dimensional a and b under numpy broadcasting,
\* -1 when the operands cannot be broadcast together
BroadcastLen(n, m) == IF n = m THEN n
                      ELSE IF n = 1 THEN m
                      ELSE IF m = 1 THEN n
                      ELSE -1

Stretch(col, n) == [i \in 1..n |-> IF Len(col) = 1 THEN col[1] ELSE col[i]]

\* the distance taken over columns 0 and 2 (x and heading)
DistancesOverHeading(ego, human) ==
    LET n == BroadcastLen(Len(ego), Len(human))
        ex == Stretch(Column(ego, 1), n)
        ey == Stretch(Column(ego, 3), n)
        hx == Stretch(Column(human, 1), n)
        hy == Stretch(Column(human, 3), n)
    IN [i \in 1..n |-> Sqrt((ex[i] - hx[i]) * (ex[i] - hx[i])
                            + (ey[i] - hy[i]) * (ey[i] - hy[i]))]

\* line 139: sqrt((ego[:, 0] - human[:, 0])**2 + (ego[:, 1] - human[:, 1])**2)
Distances(ego, human) ==
    LET n == BroadcastLen(Len(ego), Len(human))
        ex == Stretch(Column(ego, 1), n)
        ey == Stretch(Column(ego, 2), n)
        hx == Stretch(Column(human, 1), n)
        hy == Stretch(Column(human, 2), n)
    IN [i \in 1..n |-> Sqrt((ex[i] - hx[i]) * (ex[i] - hx[i])
                            + (ey[i] - hy[i]) * (ey[i] - hy[i]))]

NoError == [kind |-> "none", at |-> ""]

\* figure code in which a plot accepts x and y of different lengths
FigureErrorPlotUnchecked(ego, human) ==
    IF human = <<>> THEN [kind |-> "IndexError", at |-> "line 65"]
    ELSE IF ego = <<>> THEN [kind |-> "IndexError", at |-> "line 66"]
    ELSE IF BroadcastLen(Len(ego), Len(human)) = -1
         THEN [kind |-> "ValueError", at |-> "line 139"]
    ELSE IF Cols(ego) < 4 THEN [kind |-> "IndexError", at |-> "line 150"]
    ELSE IF Cols(human) < 4 THEN [kind |-> "IndexError", at |-> "line 151"]
    ELSE NoError

\* lines 60-156: the first statement of the figure code that raises
FigureError(ego, human) ==
    IF human = <<>> THEN [kind |-> "IndexError", at |-> "line 65"]
    ELSE IF ego = <<>> THEN [kind |-> "IndexError", at |-> "line 66"]
    ELSE IF BroadcastLen(Len(ego), Len(human)) = -1
         THEN [kind |-> "ValueError", at |-> "line 139"]
    ELSE IF Len(ego) # BroadcastLen(Len(ego), Len(human))
         THEN [kind |-> "ValueError", at |-> "line 140"]
    ELSE IF Cols(ego) < 4 THEN [kind |-> "IndexError", at |-> "line 150"]
    ELSE IF Cols(human) < 4 THEN [kind |-> "IndexError", at |-> "line 151"]
    ELSE IF Len(human) # Len(ego) THEN [kind |-> "ValueError", at |-> "line 151"]
    ELSE NoError

\* lines 168-176: the number of statistic lines printed before one raises
\* (9 when none does): [-1] of an empty series is an index error
StatisticsPrinted(plot, theta) ==
    IF plot = <<>> THEN 0 ELSE IF theta = <<>> THEN 4 ELSE 9

StatisticsError(plot, theta) ==
    IF plot = <<>> THEN [kind |-> "IndexError", at |-> "line 168"]
    ELSE IF theta = <<>> THEN [kind |-> "IndexError", at |-> "line 172"]
    ELSE NoError

\* lines 168-176: the i-th statistic line printed to standard output
PrintedLine(i, plot, tb, err, theta, dist, ego, human) ==
    CASE i = 1 -> Fixed("Final Beta Estimation: ", 4, Last(plot), "")
      [] i = 2 -> Fixed("Beta Estimation Error (Final): ", 4, Abs(Last(plot) - tb), "")
      [] i = 3 -> Fixed("Mean Beta Estimation Error: ", 4, Mean(err), "")
      [] i = 4 -> Fixed("Std Beta Estimation Error: ", 4, Std(err), "")
      [] i = 5 -> Fixed("Final Theta Probability: ", 4, Last(theta), "")
      [] i = 6 -> Fixed("Min Distance Between Vehicles: ", 2, MinSeq(dist), " m")
      [] i = 7 -> Fixed("Mean Distance Between Vehicles: ", 2, Mean(dist), " m")
      [] i = 8 -> Fixed("Final Ego Velocity: ", 2, Kmh(Last(ego)[4]), " km/h")
      [] i = 9 -> Fixed("Final Human Velocity: ", 2, Kmh(Last(human)[4]), " km/h")

\* file lines that repeat the final error as the mean error
WrittenLineFinalForMean(i, plot, tb, err, theta, dist, ego, human) ==
    CASE i = 1 -> Fixed("Final Beta Estimation: ", 4, Last(plot), "")
      [] i = 2 -> Fixed("Beta Estimation Error (Final): ", 4, Abs(Last(plot) - tb), "")
      [] i = 3 -> Fixed("Mean Beta Estimation Error: ", 4, Abs(Last(plot) - tb), "")
      [] i = 4 -> Fixed("Std Beta Estimation Error: ", 4, Std(err), "")
      [] i = 5 -> Fixed("Final Theta Probability: ", 4, Last(theta), "")
      [] i = 6 -> Fixed("Min Distance Between Vehicles: ", 2, MinSeq(dist), " m")
      [] i = 7 -> Fixed("Mean Distance Between Vehicles: ", 2, Mean(dist), " m")
      [] i = 8 -> Fixed("Final Ego Velocity: ", 2, Kmh(Last(ego)[4]), " km/h")
      [] i = 9 -> Fixed("Final Human Velocity: ", 2, Kmh(Last(human)[4]), " km/h")

\* lines 185-193: the i-th statistic line written to the statistics file
WrittenLine(i, plot, tb, err, theta, dist, ego, human) ==
    CASE i = 1 -> Fixed("Final Beta Estimation: ", 4, Last(plot), "")
      [] i = 2 -> Fixed("Beta Estimation Error (Final): ", 4, Abs(Last(plot) - tb), "")
      [] i = 3 -> Fixed("Mean Beta Estimation Error: ", 4, Mean(err), "")
      [] i = 4 -> Fixed("Std Beta Estimation Error: ", 4, Std(err), "")
      [] i = 5 -> Fixed("Final Theta Probability: ", 4, Last(theta), "")
      [] i = 6 -> Fixed("Min Distance Between Vehicles: ", 2, MinSeq(dist), " m")
      [] i = 7 -> Fixed("Mean Distance Between Vehicles: ", 2, Mean(dist), " m")
      [] i = 8 -> Fixed("Final Ego Velocity: ", 2, Kmh(Last(ego)[4]), " km/h")
      [] i = 9 -> Fixed("Final Human Velocity: ", 2, Kmh(Last(human)[4]), " km/h")

\* lines 182-194: the content of the statistics file
StatisticsFile(plot, tb, err, theta, dist, ego, human) ==
    <<Rule, Text("Key Statistics"), Rule>>
    \o [i \in 1..9 |-> WrittenLine(i, plot, tb, err, theta, dist, ego, human)]
    \o <<Rule>>

\* the figure saved under the name of the statistics file
AnalysisPlotPathOfStats == "key_statistics.txt"

\* line 159: the name of the figure file under result_dir
AnalysisPlotPath == "analysis_results.png"

\* the statistics saved under the name of the figure file
StatsFilePathOfPlot == "analysis_results.png"

\* line 180: the name of the statistics file under result_dir
StatsFilePath == "key_statistics.txt"

\* ------------------------------------------------------------------ state
VARIABLES
    archive,          \* the npz file at npz_path
    pc,               \* the stage the call has reached
    error,            \* the exception that ended the call, if any
    ego_traj, human_traj, beta_est, theta_est,
    true_beta, true_theta, pass_inter, collision,
    beta_est_plot, beta_time_steps, theta_time_steps, traj_time_steps,
    beta_error, theta_label, theta_series_label, distances,
    stdout,           \* the lines printed so far
    written,          \* the files written under result_dir, in order
    stats_file        \* the content of key_statistics.txt

loaded == <<ego_traj, human_traj, beta_est, theta_est,
            true_beta, true_theta, pass_inter, collision>>

aligned == <<beta_est_plot, beta_time_steps, theta_time_steps, traj_time_steps>>

drawn == <<beta_error, theta_label, theta_series_label, distances>>

vars == <<archive, pc, error, loaded, aligned, drawn, stdout, written, stats_file>>

Init ==
    /\ archive \in FullArchives \cup PartialArchives
    /\ pc = "start"
    /\ error = NoError
    /\ ego_traj = <<>> /\ human_traj = <<>> /\ beta_est = <<>> /\ theta_est = <<>>
    /\ true_beta = 0 /\ true_theta = "" /\ pass_inter = FALSE /\ collision = FALSE
    /\ beta_est_plot = <<>> /\ beta_time_steps = <<>>
    /\ theta_time_steps = <<>> /\ traj_time_steps = <<>>
    /\ beta_error = <<>> /\ theta_label = "" /\ theta_series_label = ""
    /\ distances = <<>>
    /\ stdout = <<>>
    /\ written = <<>>
    /\ stats_file = <<>>

Raise(e) == pc' = "failed" /\ error' = e

\* lines 21-41: load the fields and print the results header
LoadResults ==
    /\ pc = "start"
    /\ LET bad == FirstKeyError(archive)
       IN IF bad # 0
          THEN /\ Raise([kind |-> "KeyError", at |-> Keys[bad]])
               /\ UNCHANGED <<loaded, stdout>>
          ELSE /\ ego_traj' = Field(archive, "ego")
               /\ human_traj' = Field(archive, "human")
               /\ beta_est' = Field(archive, "beta")
               /\ theta_est' = Field(archive, "theta")
               /\ true_beta' = Field(archive, "t_beta")
               /\ true_theta' = Field(archive, "t_theta")
               /\ pass_inter' = Field(archive, "PassInter")
               /\ collision' = Field(archive, "Collision")
               /\ stdout' = <<Text(""), Rule, Text("Simulation Results Analysis"), Rule,
                              Shown("True Human Characteristic (theta): ", true_theta'),
                              Fixed("True Human Rationality (beta): ", 4, true_beta', ""),
                              Shown("Successfully Passed Intersection: ", pass_inter'),
                              Shown("Collision Occurred: ", collision'),
                              Shown("Total Simulation Steps: ", Len(ego_traj')),
                              Rule>>
               /\ pc' = "loaded"
               /\ error' = error
    /\ UNCHANGED <<archive, aligned, drawn, written, stats_file>>

\* lines 43-58: align the beta series and build the time axes
FixDimensionMismatch ==
    /\ pc = "loaded"
    /\ beta_est_plot' = AlignedBeta(beta_est, theta_est)
    /\ beta_time_steps' = Arange(Len(beta_est_plot'))
    /\ theta_time_steps' = Arange(Len(theta_est))
    /\ traj_time_steps' = Arange(Len(ego_traj))
    /\ pc' = "aligned"
    /\ UNCHANGED <<archive, error, loaded, drawn, stdout, written, stats_file>>

\* lines 60-156: build the six panels
CreateFigure ==
    /\ pc = "aligned"
    /\ LET e == FigureError(ego_traj, human_traj)
       IN IF e # NoError
          THEN /\ Raise(e)
               /\ UNCHANGED drawn
          ELSE /\ beta_error' = BetaError(beta_est_plot, true_beta)
               /\ theta_label' = ThetaLabel(true_theta)
               /\ theta_series_label' = ThetaSeriesLabel(true_theta)
               /\ distances' = Distances(ego_traj, human_traj)
               /\ pc' = "drawn"
               /\ error' = error
    /\ UNCHANGED <<archive, loaded, aligned, stdout, written, stats_file>>

\* lines 158-162: save the figure; the write fails when result_dir is
\* missing or not writable
SaveFigure ==
    /\ pc = "drawn"
    /\ \E writable \in BOOLEAN :
          IF writable
          THEN /\ written' = Append(written, AnalysisPlotPath)
               /\ stdout' = stdout \o <<Text(""),
                                        Shown("Analysis plot saved to: ", AnalysisPlotPath)>>
               /\ pc' = "saved"
               /\ error' = error
          ELSE /\ Raise([kind |-> "OSError", at |-> "line 160"])
               /\ UNCHANGED <<written, stdout>>
    /\ UNCHANGED <<archive, loaded, aligned, drawn, stats_file>>

\* lines 164-177: print the key statistics
PrintStatistics ==
    /\ pc = "saved"
    /\ LET e == StatisticsError(beta_est_plot, theta_est)
           n == StatisticsPrinted(beta_est_plot, theta_est)
           lines == [i \in 1..n |->
                        PrintedLine(i, beta_est_plot, true_beta, beta_error,
                                    theta_est, distances, ego_traj, human_traj)]
           head == stdout \o <<Text(""), Rule, Text("Key Statistics"), Rule>> \o lines
       IN IF e # NoError
          THEN /\ Raise(e)
               /\ stdout' = head
          ELSE /\ stdout' = head \o <<Rule>>
               /\ pc' = "printed"
               /\ error' = error
    /\ UNCHANGED <<archive, loaded, aligned, drawn, written, stats_file>>

\* lines 179-195: save the key statistics
SaveStatistics ==
    /\ pc = "printed"
    /\ \E writable \in BOOLEAN :
          IF writable
          THEN /\ written' = Append(written, StatsFilePath)
               /\ stats_file' = StatisticsFile(beta_est_plot, true_beta, beta_error,
                                               theta_est, distances, ego_traj, human_traj)
               /\ stdout' = stdout \o <<Text(""),
                                        Shown("Key statistics saved to: ", StatsFilePath)>>
               /\ pc' = "done"
               /\ error' = error
          ELSE /\ Raise([kind |-> "OSError", at |-> "line 181"])
               /\ UNCHANGED <<written, stats_file, stdout>>
    /\ UNCHANGED <<archive, loaded, aligned, drawn>>

Next ==
    \/ LoadResults
    \/ FixDimensionMismatch
    \/ CreateFigure
    \/ SaveFigure
    \/ PrintStatistics
    \/ SaveStatistics

Spec == Init /\ [][Next]_vars

\* ------------------------------------------------------------- the claims
Range(s) == {s[i] : i \in 1..Len(s)}

\* the call has passed the alignment of lines 49-58
Aligned ==
    \/ pc \in {"aligned", "drawn", "saved", "printed", "done"}
    \/ pc = "failed" /\ error.kind # "KeyError"

\* the call has built the six panels of lines 60-156
Drawn ==
    \/ pc \in {"drawn", "saved", "printed", "done"}
    \/ pc = "failed" /\ error.at \in {"line 160", "line 168", "line 172", "line 181"}

HasAllKeys == KeySet \subseteq DOMAIN archive

\* C1: once the series are aligned, the aligned beta series is the archive's
\* beta series without its first element, as long as the theta series, when
\* the beta series is one longer than the theta series; in every other case
\* it is the archive's beta series, unmodified.
C1_AlignmentRule ==
    Aligned =>
        IF Len(archive.beta) = Len(archive.theta) + 1
        THEN /\ Len(beta_est_plot) = Len(archive.theta)
             /\ \A i \in 1..Len(beta_est_plot) : beta_est_plot[i] = archive.beta[i + 1]
        ELSE beta_est_plot = archive.beta

C1_Witness ==
    /\ pc = "done"
    /\ Len(archive.beta) = Len(archive.theta) + 1
    /\ Len(beta_est_plot) = 2
    /\ archive.beta[1] # archive.beta[2]

\* C2 as stated: the theta series is labelled "P(Attentive)" exactly when
\* the loaded true_theta is "attentive", and "P(Distracted)" otherwise.
C2_LabelByWord ==
    Drawn =>
        /\ theta_series_label = "P(Attentive)" <=> archive.t_theta = "attentive"
        /\ archive.t_theta # "attentive" => theta_series_label = "P(Distracted)"

\* C2 amended: the theta series is labelled "P(Attentive)" exactly when the
\* loaded true_theta is "a"; for every other value, "attentive" and "d"
\* included, it is labelled "P(Distracted)", and the figure is built.
C2_LabelByLetter ==
    Drawn =>
        /\ theta_series_label = "P(Attentive)" <=> archive.t_theta = "a"
        /\ archive.t_theta # "a" => theta_series_label = "P(Distracted)"
        /\ theta_label = (IF archive.t_theta = "a" THEN "Attentive" ELSE "Distracted")

C2_Witness ==
    /\ pc = "done"
    /\ archive.t_theta = "attentive"
    /\ theta_series_label = "P(Distracted)"

\* C3: a call on an archive that lacks a required field ends during loading
\* with a missing-key error that names a field the archive lacks, and has
\* then written neither output file (and printed nothing).
C3_MissingKeyAborts ==
    (~HasAllKeys /\ pc # "start") =>
        /\ pc = "failed"
        /\ error.kind = "KeyError"
        /\ error.at \in KeySet \ DOMAIN archive
        /\ written = <<>>
        /\ stats_file = <<>>
        /\ stdout = <<>>

C3_Witness ==
    /\ pc = "failed"
    /\ error = [kind |-> "KeyError", at |-> "t_theta"]
    /\ "t_theta" \notin DOMAIN archive

\* C4: a call that completes has written analysis_results.png and then
\* key_statistics.txt, each once, and nothing else.
C4_ExactlyTwoFiles ==
    pc = "done" =>
        /\ written = <<"analysis_results.png", "key_statistics.txt">>
        /\ stats_file # <<>>

C4_Witness ==
    /\ pc = "done"
    /\ Len(written) = 2

\* the Key Statistics block of the printed lines: the thirteen lines from
\* the rule above the title "Key Statistics"
KeyStatisticsBlock(out) ==
    LET t == CHOOSE i \in 1..Len(out) : out[i] = Text("Key Statistics")
    IN SubSeq(out, t - 1, t + 11)

\* C5: when the call completes, the lines of key_statistics.txt are, line
\* for line, the Key Statistics block printed to standard output, from its
\* opening rule to its closing rule: thirteen lines, nine of them statistics.
C5_FileEqualsPrintedBlock ==
    pc = "done" =>
        /\ Len(stats_file) = 13
        /\ stats_file[1] = Rule /\ stats_file[13] = Rule
        /\ \A i \in 4..12 : stats_file[i][1] = "fixed"
        /\ stats_file = KeyStatisticsBlock(stdout)

C5_Witness ==
    /\ pc = "done"
    /\ stats_file[4] = <<"fixed", "Final Beta Estimation: ", 4, 3000, "">>
    /\ stats_file[6][4] # stats_file[5][4]

\* lines 49-55, 108, 139 and 182-194 in turn: the statistics file the call
\* writes for the series beta in place of the archive's beta series
StatisticsFor(beta) ==
    LET plot == AlignedBeta(beta, archive.theta)
    IN StatisticsFile(plot, archive.t_beta, BetaError(plot, archive.t_beta),
                      archive.theta, Distances(archive.ego, archive.human),
                      archive.ego, archive.human)

\* C6: when the beta series is one longer than the theta series, the
\* statistics written do not depend on its first element: they are the
\* statistics of the archive with any other first element, and of the
\* archive whose beta series lacks that element.
C6_DroppedValueIrrelevant ==
    (pc = "done" /\ Len(archive.beta) = Len(archive.theta) + 1) =>
        /\ \A v \in BetaVals :
              StatisticsFor(<<v>> \o Tail(archive.beta)) = stats_file
        /\ StatisticsFor(Tail(archive.beta)) = stats_file

C6_Witness ==
    /\ pc = "done"
    /\ Len(archive.beta) = Len(archive.theta) + 1
    /\ archive.beta[1] = 30004
    /\ \A i \in 2..Len(archive.beta) : archive.beta[i] = 5 * 10^4
    /\ stats_file[4][4] = 5000

\* C7: the beta error series is as long as the aligned beta series; each of
\* its values is the distance between the aligned beta value and true_beta:
\* never negative, and 0 where the two are equal.
C7_BetaAbsoluteError ==
    Drawn =>
        /\ Len(beta_error) = Len(beta_est_plot)
        /\ \A i \in 1..Len(beta_est_plot) :
              /\ beta_error[i] >= 0
              /\ beta_error[i] \in {beta_est_plot[i] - true_beta,
                                    true_beta - beta_est_plot[i]}
              /\ beta_est_plot[i] = true_beta => beta_error[i] = 0

C7_Witness ==
    /\ pc = "done"
    /\ \E i, j \in 1..Len(beta_error) :
          /\ beta_est_plot[i] = true_beta /\ beta_error[i] = 0
          /\ beta_est_plot[j] < true_beta /\ beta_error[j] = 19996

SamePositions ==
    \A i \in 1..Len(ego_traj) :
        ego_traj[i][1] = human_traj[i][1] /\ ego_traj[i][2] = human_traj[i][2]

\* C8: the distance series has one value for each step; each is the
\* Euclidean norm (to the resolution of the model) of the difference of
\* columns 0 and 1 of the ego and human rows of that step: never negative,
\* and 0 where the positions coincide; when all positions coincide the
\* minimum and mean distance of the summary are 0.
C8_EuclideanDistance ==
    Drawn =>
        /\ Len(distances) = Len(ego_traj)
        /\ Len(distances) = Len(human_traj)
        /\ \A i \in 1..Len(distances) :
              LET dx == ego_traj[i][1] - human_traj[i][1]
                  dy == ego_traj[i][2] - human_traj[i][2]
                  d == distances[i]
              IN /\ d >= 0
                 /\ d * d <= dx * dx + dy * dy
                 /\ dx * dx + dy * dy < (d + 1) * (d + 1)
                 /\ (dx = 0 /\ dy = 0) => d = 0
        /\ (pc = "done" /\ SamePositions) =>
              /\ stats_file[9] = <<"fixed", "Min Distance Between Vehicles: ", 2, 0, " m">>
              /\ stats_file[10] = <<"fixed", "Mean Distance Between Vehicles: ", 2, 0, " m">>

C8_Witness ==
    /\ pc = "done"
    /\ distances = <<0, 5004>>
    /\ stats_file[9][4] = 0
    /\ stats_file[10][4] = 250

\* C9: whenever key_statistics.txt has been written, analysis_results.png
\* was written before it; and a call that fails after the figure is saved
\* and before the statistics are (at the last element of an empty beta or
\* theta series, or at opening the file) leaves the figure as the only file.
C9_ImageBeforeText ==
    /\ \A i \in 1..Len(written) :
          written[i] = "key_statistics.txt" =>
              \E j \in 1..(i - 1) : written[j] = "analysis_results.png"
    /\ stats_file # <<>> => "analysis_results.png" \in Range(written)
    /\ (pc = "failed" /\ error.at \in {"line 168", "line 172", "line 181"}) =>
          /\ written = <<"analysis_results.png">>
          /\ stats_file = <<>>

C9_Witness ==
    /\ pc = "failed"
    /\ error = [kind |-> "IndexError", at |-> "line 168"]
    /\ beta_est_plot = <<>>
    /\ written = <<"analysis_results.png">>

LengthMismatch ==
    \/ Len(archive.beta) \notin {Len(archive.theta), Len(archive.theta) + 1}
    \/ Len(archive.ego) # Len(archive.human)

\* the call has left the figure code of lines 60-156, built or not
FigureTried == Aligned /\ pc # "aligned"

\* C10 as stated: with a beta series that is neither as long as the theta
\* series nor one longer, or with trajectories of different lengths, the
\* call does not complete.
C10_MismatchAborts ==
    (HasAllKeys /\ LengthMismatch) => pc # "done"

\* C10 amended: the off-by-one trim is the only reconciliation.  With any
\* other beta/theta length difference nothing is trimmed or padded, each
\* series keeps its own time axis, and the difference raises no error (a
\* shape error comes only from the trajectories, an index error only from
\* an empty series or trajectory or a missing column); trajectories of
\* different lengths end the call with a shape or index error before any
\* file is written.
C10_OnlyTrajectoryMismatchAborts ==
    /\ (Aligned /\ Len(archive.beta) # Len(archive.theta) + 1) =>
          /\ beta_est_plot = archive.beta
          /\ beta_time_steps = Arange(Len(archive.beta))
          /\ theta_est = archive.theta
          /\ theta_time_steps = Arange(Len(archive.theta))
    /\ (FigureTried /\ Len(archive.ego) # Len(archive.human)) =>
          /\ pc = "failed"
          /\ error.kind \in {"ValueError", "IndexError"}
          /\ written = <<>>
    /\ (pc = "failed" /\ error.kind = "ValueError") =>
          Len(archive.ego) # Len(archive.human)
    /\ (pc = "failed" /\ error.kind = "IndexError") =>
          \/ archive.ego = <<>> \/ archive.human = <<>>
          \/ Cols(archive.ego) < 4 \/ Cols(archive.human) < 4
          \/ beta_est_plot = <<>> \/ archive.theta = <<>>

C10_Witness ==
    /\ pc = "done"
    /\ Len(archive.beta) = Len(archive.theta) + 2
    /\ beta_est_plot = archive.beta
=============================================================================
